---- MODULE Spec2Model ----
(***************************************************************************)
(* Model of src/main.py: the Streamlit page that derives the joint         *)
(* economic lot size with SymPy (alkahtani_optimization), saves every      *)
(* simulation to PostgreSQL (init_db, salvar_simulacao,                    *)
(* carregar_historico) and shows the result.                               *)
(*                                                                         *)
(* Numbers.  Setup costs, holding costs and the demand are integers (the   *)
(* unit is arbitrary); a defect rate is the slider's percent value, so     *)
(* alpha = alpha_pct / PercentDiv.  A Python float produced by the code    *)
(* (q_opt, min_cost, a saved column) is a fixed-point number counted in    *)
(* 1/Precision: float(x) is the multiple of 1/Precision nearest to x.      *)
(***************************************************************************)
EXTENDS Integers, Sequences, FiniteSets

\* ------------------------------------------------------------ bounds
\* Largest setup cost and holding cost typed into a number_input, largest
\* annual demand, resolution of a float, rows the table may hold.
MaxSetup == 2

MaxHolding == 2

MaxDemand == 2

Precision == 256

MaxRows == 1

\* ------------------------------------------------- program constants
\* st.slider(..., 0.0, 10.0, 2.0) / 100 and st.slider(..., 0.0, 10.0, 5.0) / 100
SliderMin == 0

SliderMax == 10

AlphaMDefault == 2

PercentDiv == 100

\* number_input has no min_value: zero and negative costs can be typed.
SetupValues == -1 .. MaxSetup

HoldingValues == -1 .. MaxHolding

AlphaMValues == {SliderMin, AlphaMDefault}

AlphaVValues == {SliderMin, SliderMax}

VARIABLES
  pc,                \* position of the script run (or of the direct call)
  S_m, S_v, h_m, h_v,
  alpha_m, alpha_v,  \* slider values, in percent
  D_annual,
  adjustment_policy, \* the policy a caller of the optimizer asks for
  raised,            \* exception that left alkahtani_optimization
  q_star, min_cost, convex, diff_eq,
  conn,              \* connection of the persistence function that ran last
  lastFn,            \* the persistence function that exited last
  rowCount,          \* rows committed to simulacoes
  saved,             \* the row this run committed, or NoRow
  toast,             \* the "saved" toast is on the page
  shown,             \* the "Recomendacao do Sistema" block, or NoRecommendation
  errors,            \* st.error messages of this run
  last_diff_eq,      \* st.session_state['last_diff_eq']
  df_hist            \* rows shown by the history tab (-1: not loaded yet)

vars == <<pc, S_m, S_v, h_m, h_v, alpha_m, alpha_v, D_annual, adjustment_policy,
          raised, q_star, min_cost, convex, diff_eq, conn, lastFn, rowCount,
          saved, toast, shown, errors, last_diff_eq, df_hist>>

params == <<S_m, S_v, h_m, h_v, alpha_m, alpha_v, D_annual>>

results == <<raised, q_star, min_cost, convex, diff_eq>>

\* ------------------------------------------------------- arithmetic
\* a / b rounded to the nearest integer, b > 0 (\div rounds down).
RoundDiv(a, b) == (2 * a + b) \div (2 * b)

Abs(x) == IF x < 0 THEN -x ELSE x

RECURSIVE Heron(_, _)
\* Heron's iteration for the integer square root: x decreases to floor(sqrt(n)).
Heron(n, x) ==
  LET y == (x + n \div x) \div 2
  IN  IF y >= x THEN x ELSE Heron(n, y)

ISqrt(n) == IF n = 0 THEN 0 ELSE Heron(n, n)

\* float(sqrt(num / den)) for num / den > 0: the nearest multiple of 1/Precision.
SqrtFloat(num, den) ==
  (ISqrt((4 * Abs(num) * Precision * Precision) \div Abs(den)) + 1) \div 2

\* ------------------------------------------- alkahtani_optimization
\* A slip: the vendor's setup cost left out of S_total.
SetupCoefficient_ManufacturerOnly(Sm, Sv) == Sm

\* Coefficient of D/Q in TC:  S_total = (S_m + S_v) * D / Q.
SetupCoefficient(Sm, Sv) == Sm + Sv

\* A slip: the discount form h*(1-alpha) in place of h*(1+alpha).
HoldingCoefficient_Discount(hm, hv, am, av) ==
  hm * (PercentDiv - am) + hv * (PercentDiv - av)

\* Coefficient of Q/2 in TC, in 1/PercentDiv:
\* H_total = (Q / 2) * (h_m * (1 + alpha_m) + h_v * (1 + alpha_v)).
HoldingCoefficient(hm, hv, am, av) ==
  hm * (PercentDiv + am) + hv * (PercentDiv + av)

\* "if Q == 0": Q is a SymPy symbol, never structurally equal to 0.
QSymbolIsZero == FALSE

\* A slip: the root of Q^2 = S*D/H, the factor 2 of H_total's Q/2 lost.
Solve_NoFactorTwo(S, D, H) ==
  IF (S * D > 0 /\ H > 0) \/ (S * D < 0 /\ H < 0)
  THEN <<SqrtFloat(PercentDiv * S * D, H)>>
  ELSE <<>>

\* sp.solve(dTC, Q) with dTC = -S*D/Q^2 + H/2 and Q declared positive: the
\* positive root of Q^2 = 2*S*D/H when 2*S*D/H > 0, else no root at all
\* (H = 0 or S*D = 0 leaves no equation in Q; a negative ratio has only
\* imaginary roots, which the positivity of Q excludes).
Solve(S, D, H) ==
  IF (S * D > 0 /\ H > 0) \/ (S * D < 0 /\ H < 0)
  THEN <<SqrtFloat(2 * PercentDiv * S * D, H)>>
  ELSE <<>>

\* A slip: the empty-solution guard never taken.
NotSol_Never(sol) == FALSE

\* "if not sol"
NotSol(sol) == sol = <<>>

\* float(TC.subs(Q, q)) = S*D/q + H*q/2 at the float q, in 1/Precision.
TotalCostAt(S, D, H, q) ==
  RoundDiv(2 * PercentDiv * S * D * Precision * Precision + H * q * q,
           2 * PercentDiv * q)

\* A slip: the convexity test written as d2TC < 0.
SecondDerivativePositive_Flipped(S, D, q) ==
  (2 * S * D < 0 /\ q > 0) \/ (2 * S * D > 0 /\ q < 0)

\* d2TC.subs(Q, q) > 0 with d2TC = 2*S*D/Q^3: the sign of 2*S*D*q.
SecondDerivativePositive(S, D, q) ==
  (2 * S * D > 0 /\ q > 0) \/ (2 * S * D < 0 /\ q < 0)

Fallback ==
  [raised |-> "none", q_opt |-> 0, min_cost |-> 0, is_convex |-> FALSE,
   latex_derivative |-> ""]

alkahtani_optimization(D, Sm, Sv, hm, hv, am, av) ==
  LET S   == SetupCoefficient(Sm, Sv)
      H   == HoldingCoefficient(hm, hv, am, av)
      sol == Solve(S, D, H)
  IN  IF QSymbolIsZero THEN Fallback
      ELSE IF NotSol(sol) THEN Fallback
      ELSE IF Len(sol) = 0
      THEN \* sol[0] of an empty list
           [raised |-> "IndexError", q_opt |-> 0, min_cost |-> 0,
            is_convex |-> FALSE, latex_derivative |-> ""]
      ELSE LET q_opt == sol[1]
           IN  [raised |-> "none",
                q_opt |-> q_opt,
                min_cost |-> TotalCostAt(S, D, H, q_opt),
                is_convex |-> SecondDerivativePositive(S, D, q_opt),
                latex_derivative |-> "latex(dTC)"]

\* ------------------------------------------------------ persistence
\* What a run of a persistence function leaves behind, by what the database
\* did: "noconn" psycopg2.connect raised, "sqlfail" the statement or the
\* commit raised, "ok" nothing raised.
DbOutcomes == {"noconn", "sqlfail", "ok"}

\* get_db_connection: the connection, or None after st.error.
get_db_connection(outcome) ==
  IF outcome = "noconn"
  THEN [conn |-> "none", errors |-> {"Erro ao conectar no PostgreSQL"}]
  ELSE [conn |-> "open", errors |-> {}]

\* init_db, with the try/except around its call: no try/finally inside, so an
\* exception of execute or commit leaves before conn.close().
init_db(outcome) ==
  LET c == get_db_connection(outcome)
  IN  IF c.conn = "none" THEN c
      ELSE IF outcome = "sqlfail"
      THEN [conn |-> "open",
            errors |-> {"Nao foi possivel inicializar o banco de dados"}]
      ELSE [conn |-> "closed", errors |-> {}]

\* The row salvar_simulacao inserts: float() of each value, in 1/Precision
\* (Q_star and Min_Cost are floats already).
SimulacaoRow(D, Q_star, Min_Cost, Sm, Sv, hm, hv) ==
  [demanda_anual |-> D * Precision,
   lote_otimo    |-> Q_star,
   custo_minimo  |-> Min_Cost,
   setup_total   |-> (Sm + Sv) * Precision,
   holding_medio |-> RoundDiv((hm + hv) * Precision, 2)]

NoRow == [demanda_anual |-> -1]

\* salvar_simulacao: try / except st.error / finally conn.close().
salvar_simulacao(outcome, row) ==
  LET c == get_db_connection(outcome)
  IN  IF c.conn = "none"
      THEN [conn |-> "none", errors |-> c.errors, committed |-> NoRow]
      ELSE IF outcome = "sqlfail"
      THEN [conn |-> "closed", errors |-> {"Erro ao salvar no banco"},
            committed |-> NoRow]
      ELSE [conn |-> "closed", errors |-> {}, committed |-> row]

\* carregar_historico: try / except st.error / finally conn.close(); the
\* DataFrame is empty unless the SELECT went through.
carregar_historico(outcome, rows) ==
  LET c == get_db_connection(outcome)
  IN  IF c.conn = "none"
      THEN [conn |-> "none", errors |-> c.errors, df |-> 0]
      ELSE IF outcome = "sqlfail"
      THEN [conn |-> "closed", errors |-> {"Erro ao ler historico"}, df |-> 0]
      ELSE [conn |-> "closed", errors |-> {}, df |-> rows]

\* ------------------------------------------------------ script run
NoRecommendation == [status |-> "none"]

\* The locals of a script run before the calculate block has run.
ClearedLocals ==
  /\ S_m = 0 /\ S_v = 0 /\ h_m = 0 /\ h_v = 0
  /\ alpha_m = SliderMin /\ alpha_v = SliderMin /\ D_annual = 0
  /\ raised = "none" /\ q_star = 0 /\ min_cost = 0
  /\ convex = FALSE /\ diff_eq = ""
  /\ saved = NoRow /\ toast = FALSE /\ shown = NoRecommendation
  /\ df_hist = -1

Init ==
  /\ pc = "init_db"
  /\ ClearedLocals
  /\ adjustment_policy = "surcharge"
  /\ conn = "none" /\ lastFn = "none"
  /\ rowCount = 0
  /\ errors = {}
  /\ last_diff_eq = "unset"

\* Top of the script: try: init_db() except: st.error(...).
InitDb ==
  /\ pc = "init_db"
  /\ \E outcome \in DbOutcomes :
       LET r == init_db(outcome)
       IN  /\ conn' = r.conn
           /\ errors' = r.errors
  /\ lastFn' = "init_db"
  /\ pc' = "widgets"
  /\ UNCHANGED <<params, adjustment_policy, results, rowCount, saved, toast,
                 shown, last_diff_eq, df_hist>>

\* tab1 without a calculation: no demand (D_annual > 0 fails) or the button
\* is not pressed; the widget values are read and never used.
SkipCalculate ==
  /\ pc = "widgets"
  /\ pc' = "tab3"
  /\ UNCHANGED <<params, adjustment_policy, results, conn, lastFn, rowCount,
                 saved, toast, shown, errors, last_diff_eq, df_hist>>

\* tab1 with D_annual > 0 and the button pressed: the widget values of this run.
ClickCalculate ==
  /\ pc = "widgets"
  /\ rowCount < MaxRows
  /\ \E Sm \in SetupValues, Sv \in SetupValues,
        hm \in HoldingValues, hv \in HoldingValues,
        am \in AlphaMValues, av \in AlphaVValues, D \in 1 .. MaxDemand :
       /\ S_m' = Sm /\ S_v' = Sv /\ h_m' = hm /\ h_v' = hv
       /\ alpha_m' = am /\ alpha_v' = av /\ D_annual' = D
  /\ pc' = "calc"
  /\ UNCHANGED <<adjustment_policy, results, conn, lastFn, rowCount, saved,
                 toast, shown, errors, last_diff_eq, df_hist>>

\* q_star, min_cost, convex, diff_eq = alkahtani_optimization(...); an
\* exception would end the script run.
Calculate ==
  /\ pc = "calc"
  /\ LET r == alkahtani_optimization(D_annual, S_m, S_v, h_m, h_v,
                                     alpha_m, alpha_v)
     IN  /\ raised' = r.raised
         /\ q_star' = r.q_opt
         /\ min_cost' = r.min_cost
         /\ convex' = r.is_convex
         /\ diff_eq' = r.latex_derivative
         /\ pc' = IF r.raised = "none" THEN "save" ELSE "end"
  /\ UNCHANGED <<params, adjustment_policy, conn, lastFn, rowCount, saved,
                 toast, shown, errors, last_diff_eq, df_hist>>

\* salvar_simulacao(D_annual, q_star, min_cost, S_m, S_v, h_m, h_v)
SalvarSimulacao ==
  /\ pc = "save"
  /\ \E outcome \in DbOutcomes :
       LET r == salvar_simulacao(outcome,
                  SimulacaoRow(D_annual, q_star, min_cost, S_m, S_v, h_m, h_v))
       IN  /\ conn' = r.conn
           /\ errors' = errors \cup r.errors
           /\ saved' = r.committed
           /\ rowCount' = IF r.committed = NoRow THEN rowCount ELSE rowCount + 1
  /\ lastFn' = "salvar_simulacao"
  /\ pc' = "toast"
  /\ UNCHANGED <<params, adjustment_policy, results, toast, shown,
                 last_diff_eq, df_hist>>

\* st.toast("Simulacao salva no historico PostgreSQL!")
Toast ==
  /\ pc = "toast"
  /\ toast' = TRUE
  /\ pc' = "show"
  /\ UNCHANGED <<params, adjustment_policy, results, conn, lastFn, rowCount,
                 saved, shown, errors, last_diff_eq, df_hist>>

\* st.success("Recomendacao do Sistema"), the three metrics, st.info with
\* int(q_star), and session_state['last_diff_eq'] = diff_eq.
ShowResults ==
  /\ pc = "show"
  /\ shown' = [status |-> IF convex THEN "Otima Global" ELSE "Inconclusiva",
               lote   |-> q_star \div Precision,
               custo  |-> min_cost]
  /\ last_diff_eq' = diff_eq
  /\ pc' = "tab3"
  /\ UNCHANGED <<params, adjustment_policy, results, conn, lastFn, rowCount,
                 saved, toast, errors, df_hist>>

\* tab3: df_hist = carregar_historico()
CarregarHistorico ==
  /\ pc = "tab3"
  /\ \E outcome \in DbOutcomes :
       LET r == carregar_historico(outcome, rowCount)
       IN  /\ conn' = r.conn
           /\ errors' = errors \cup r.errors
           /\ df_hist' = r.df
  /\ lastFn' = "carregar_historico"
  /\ pc' = "end"
  /\ UNCHANGED <<params, adjustment_policy, results, rowCount, saved, toast,
                 shown, last_diff_eq>>

\* Any interaction reruns the script from the top: its locals and the page
\* start over; the table and st.session_state stay.
Rerun ==
  /\ pc = "end"
  /\ S_m' = 0 /\ S_v' = 0 /\ h_m' = 0 /\ h_v' = 0
  /\ alpha_m' = SliderMin /\ alpha_v' = SliderMin /\ D_annual' = 0
  /\ raised' = "none" /\ q_star' = 0 /\ min_cost' = 0
  /\ convex' = FALSE /\ diff_eq' = ""
  /\ saved' = NoRow /\ toast' = FALSE /\ shown' = NoRecommendation
  /\ df_hist' = -1
  /\ errors' = {}
  /\ pc' = "init_db"
  /\ UNCHANGED <<adjustment_policy, conn, lastFn, rowCount, last_diff_eq>>

Next ==
  \/ InitDb
  \/ SkipCalculate
  \/ ClickCalculate
  \/ Calculate
  \/ SalvarSimulacao
  \/ Toast
  \/ ShowResults
  \/ CarregarHistorico
  \/ Rerun

Spec == Init /\ [][Next]_vars

\* ---------------------------------------------- the optimizer alone
\* A direct call of alkahtani_optimization with any arguments of the input
\* sets (the demand may be 0), by a caller that wants one of the two
\* defect adjustment policies; the signature has no parameter to pass it.
Policies == {"discount", "surcharge"}

InitCall ==
  /\ pc = "call"
  /\ S_m \in SetupValues /\ S_v \in SetupValues
  /\ h_m \in HoldingValues /\ h_v \in HoldingValues
  /\ alpha_m \in AlphaMValues /\ alpha_v \in AlphaVValues
  /\ D_annual \in 0 .. MaxDemand
  /\ adjustment_policy \in Policies
  /\ raised = "none" /\ q_star = 0 /\ min_cost = 0
  /\ convex = FALSE /\ diff_eq = ""
  /\ saved = NoRow /\ toast = FALSE /\ shown = NoRecommendation
  /\ df_hist = -1
  /\ conn = "none" /\ lastFn = "none"
  /\ rowCount = 0
  /\ errors = {}
  /\ last_diff_eq = "unset"

Call ==
  /\ pc = "call"
  /\ LET r == alkahtani_optimization(D_annual, S_m, S_v, h_m, h_v,
                                     alpha_m, alpha_v)
     IN  /\ raised' = r.raised
         /\ q_star' = r.q_opt
         /\ min_cost' = r.min_cost
         /\ convex' = r.is_convex
         /\ diff_eq' = r.latex_derivative
  /\ pc' = "returned"
  /\ UNCHANGED <<params, adjustment_policy, conn, lastFn, rowCount, saved,
                 toast, shown, errors, last_diff_eq, df_hist>>

NextCall == Call

SpecCall == InitCall /\ [][NextCall]_vars

\* ------------------------------------------------------------ claims
\* The quantities the claims speak of, written out from the arguments of
\* the call: S = S_m + S_v; the echelons' effective holding costs under the
\* surcharge form h*(1+alpha) and under the discount form h*(1-alpha), in
\* 1/PercentDiv; and 2*S*D in the same unit.
ClaimS == S_m + S_v

SurchargeM == h_m * (PercentDiv + alpha_m)

SurchargeV == h_v * (PercentDiv + alpha_v)

DiscountM == h_m * (PercentDiv - alpha_m)

DiscountV == h_v * (PercentDiv - alpha_v)

ClaimHeff == SurchargeM + SurchargeV

TwoSD == 2 * PercentDiv * ClaimS * D_annual

Returned == pc = "returned"

ValidInputs == ClaimS > 0 /\ ClaimHeff > 0 /\ D_annual > 0

ValidEchelons ==
  /\ S_m > 0 /\ S_v > 0 /\ h_m > 0 /\ h_v > 0 /\ D_annual > 0

\* q, counted in 1/Precision, is the float nearest to sqrt(2*S*D/h_eff)
\* for h_eff = heff / PercentDiv.
IsSqrtOf(q, heff) ==
  /\ q > 0
  /\ (2 * q - 1) * (2 * q - 1) * heff <= 4 * TwoSD * Precision * Precision
  /\ 4 * TwoSD * Precision * Precision < (2 * q + 1) * (2 * q + 1) * heff

\* c, counted in 1/Precision, is the float nearest to num / den (den > 0).
IsNearest(c, num, den) ==
  /\ den * (2 * c - 1) <= 2 * num
  /\ 2 * num < den * (2 * c + 1)

\* C1: for S > 0, h_eff > 0 and D > 0 the optimizer returns
\* Q* = sqrt(2*S*D/h_eff) (Q* > 0 and Q*^2 * h_eff = 2*S*D, to the resolution
\* of a float) and the minimum cost TC(Q*) = S*D/Q* + h_eff*Q*/2.
C1_ClosedForm ==
  (Returned /\ ValidInputs) =>
    /\ raised = "none"
    /\ IsSqrtOf(q_star, ClaimHeff)
    /\ IsNearest(min_cost,
                 TwoSD * Precision * Precision + ClaimHeff * q_star * q_star,
                 2 * PercentDiv * q_star)

C1_Witness ==
  /\ Returned /\ ValidInputs
  /\ S_m = 1 /\ S_v = 1 /\ h_m = 1 /\ h_v = 1
  /\ alpha_m = AlphaMDefault /\ alpha_v = SliderMax /\ D_annual = 2
  /\ q_star > Precision /\ min_cost > 0

\* C2: for valid inputs (S > 0, D > 0, h_eff > 0) the returned Q* is
\* strictly positive and the convexity flag is true.
C2_ConvexCertified ==
  (Returned /\ ValidInputs) => (q_star > 0 /\ convex = TRUE)

C2_Witness ==
  /\ Returned /\ ValidInputs /\ convex = TRUE /\ q_star > 0
  /\ S_m = MaxSetup /\ S_v = 1 /\ h_m = 1 /\ h_v = MaxHolding
  /\ alpha_m = AlphaMDefault /\ alpha_v = SliderMax /\ D_annual = 1

\* C3: with a holding cost h <= 0 or an effective holding cost h_eff <= 0
\* the solve fails with InvalidParameter and returns nothing.
C3_InvalidParameter ==
  (Returned /\ (h_m <= 0 \/ h_v <= 0 \/ ClaimHeff <= 0)) =>
    raised = "InvalidParameter"

\* C4 as claimed: each echelon is solved on its own,
\* Q_i* = sqrt(2*S_i*D/h_eff_i), and the reported total cost is the sum of
\* the echelons' costs at their own Q_i* (to the resolution of a float).
EchelonCost(S, heff) ==
  TotalCostAt(S, D_annual, heff,
              SqrtFloat(2 * PercentDiv * S * D_annual, heff))

SomeDefects ==
  /\ ClaimS > 0 /\ h_m > 0 /\ h_v > 0 /\ D_annual > 0
  /\ (alpha_m > 0 \/ alpha_v > 0)

C8_ZeroDemand ==
  (Returned /\ D_annual = 0 /\ ClaimS > 0 /\ h_m > 0 /\ h_v > 0) =>
    (raised = "none" /\ q_star = 0 /\ min_cost = 0)

C8_Witness ==
  /\ Returned /\ D_annual = 0 /\ S_m > 0 /\ S_v > 0 /\ h_m > 0 /\ h_v > 0
  /\ alpha_m > 0 /\ alpha_v > 0
  /\ q_star = 0 /\ min_cost = 0 /\ raised = "none"

\* C5: when the second-derivative check fails at the computed critical
\* point, the quantity is not saved to the history table nor presented as
\* the recommended lot size.
C5_UnconvergedNotUsed ==
  (raised = "none" /\ q_star > 0 /\ ~convex) =>
    (saved = NoRow /\ shown = NoRecommendation)

\* C6: when the optimizer returns its fallback (0, 0, False, ""), the page
\* does not show the zeroed values as the system's recommendation.
C6_FallbackNotShown ==
  (toast /\ q_star = 0 /\ diff_eq = "") => shown = NoRecommendation

\* C9: the toast "Simulacao salva no historico PostgreSQL!" is on the page
\* only when salvar_simulacao committed this simulation's row.
C9_ToastOnlyAfterCommit ==
  toast => saved /= NoRow

\* C10: a connection opened by init_db, salvar_simulacao or
\* carregar_historico is closed when that function has exited.
C10_ConnectionClosedOnExit ==
  lastFn \in {"init_db", "salvar_simulacao", "carregar_historico"} =>
    conn /= "open"

====
